---- MODULE Spec2Model ----
(***************************************************************************)
(* Model of src/printify_trend_finder.py (class PrintifyTrendFinder).      *)
(*                                                                         *)
(* A text is a sequence of tokens.  A token is one character ("a", "7",    *)
(* "/", " ", "\n", ...) or one of the ten field labels, kept whole: no     *)
(* label is a substring of another and no label can be assembled from the  *)
(* other characters of the alphabet, so the substring operations of the    *)
(* code (in, split, startswith, strip) act on token sequences exactly as   *)
(* they act on the strings.                                                *)
(***************************************************************************)
EXTENDS Integers, Sequences, FiniteSets, TLC

\* ------------------------------------------------------------------ bounds
MaxChunks == 3

\* --------------------------------------------------------- program constants
NumQueries == 6
MaxOrganic == 3
MaxPromptTrends == 15
ExcerptLen == 500
DefaultDemandScore == 5
TopCount == 3

\* ------------------------------------------------------------------- labels
NICHE == "NICHE NAME:"
AUDIENCE == "TARGET AUDIENCE:"
THEME == "DESIGN THEME:"
PRODUCTS == "PRODUCTS:"
DEMAND == "DEMAND SCORE:"
COMPETITION == "COMPETITION:"
EXAMPLES == "DESIGN EXAMPLES:"
WHY == "WHY IT WORKS:"
ADANGLE == "FACEBOOK AD ANGLE:"
REVENUE == "ESTIMATED MONTHLY REVENUE:"

Labels == {NICHE, AUDIENCE, THEME, PRODUCTS, DEMAND, COMPETITION,
           EXAMPLES, WHY, ADANGLE, REVENUE}

NL == "\n"
Whitespace == {" ", NL}

\* ------------------------------------------------------- string operations
SetMin(S) == CHOOSE x \in S : \A y \in S : x <= y
SetMax(S) == CHOOSE x \in S : \A y \in S : x >= y

\* sub occurs in s at position i
MatchAt(s, sub, i) ==
    /\ i >= 1
    /\ i + Len(sub) - 1 <= Len(s)
    /\ \A k \in 1..Len(sub) : s[i + k - 1] = sub[k]

\* str.find from a position: the first occurrence at or after from, 0 if none
Find(s, sub, from) ==
    LET hits == {i \in from..(Len(s) - Len(sub) + 1) : MatchAt(s, sub, i)}
    IN  IF hits = {} THEN 0 ELSE SetMin(hits)

\* `sub in s`
Contains(s, sub) == Find(s, sub, 1) # 0

\* s.startswith(prefix)
StartsWith(s, prefix) == MatchAt(s, prefix, 1)

\* s.split(sep): the pieces between the non-overlapping occurrences of sep,
\* found left to right; always at least one piece
RECURSIVE SplitFrom(_, _, _)
SplitFrom(s, sep, from) ==
    LET i == Find(s, sep, from)
    IN  IF i = 0
        THEN <<SubSeq(s, from, Len(s))>>
        ELSE <<SubSeq(s, from, i - 1)>> \o SplitFrom(s, sep, i + Len(sep))

Split(s, sep) == SplitFrom(s, sep, 1)

\* s.strip(): leading and trailing whitespace removed
Strip(s) ==
    LET keep == {i \in 1..Len(s) : s[i] \notin Whitespace}
    IN  IF keep = {} THEN <<>> ELSE SubSeq(s, SetMin(keep), SetMax(keep))

DigitVal == [c \in {"0", "1", "2", "3", "4", "5", "6", "7", "8", "9"} |->
             CASE c = "0" -> 0 [] c = "1" -> 1 [] c = "2" -> 2 [] c = "3" -> 3
               [] c = "4" -> 4 [] c = "5" -> 5 [] c = "6" -> 6 [] c = "7" -> 7
               [] c = "8" -> 8 [] c = "9" -> 9]

RECURSIVE DigitsValue(_)
DigitsValue(d) ==
    IF d = <<>> THEN 0
    ELSE 10 * DigitsValue(SubSeq(d, 1, Len(d) - 1)) + DigitVal[d[Len(d)]]

\* int(s): surrounding whitespace ignored, an optional sign, then one or more
\* decimal digits; anything else is a ValueError (ok = FALSE).  Python
\* integers are unbounded.  (Python also takes "_" between digits; the
\* alphabet of the texts below has no "_".)
ParseInt(s) ==
    LET t      == Strip(s)
        signed == t # <<>> /\ t[1] \in {"-", "+"}
        digits == IF signed THEN SubSeq(t, 2, Len(t)) ELSE t
        valid  == digits # <<>> /\ \A i \in 1..Len(digits) : digits[i] \in DOMAIN DigitVal
    IN  IF ~valid THEN [ok |-> FALSE, value |-> 0]
        ELSE [ok |-> TRUE,
              value |-> IF signed /\ t[1] = "-" THEN 0 - DigitsValue(digits)
                        ELSE DigitsValue(digits)]

\* ------------------------------------------------------ extract_opportunities
EmptyOpp == [k \in {} |-> <<>>]

\* current_opp[key] = value
SetKey(opp, key, value) ==
    [k \in DOMAIN opp \cup {key} |-> IF k = key THEN value ELSE opp[k]]

\* the test that starts a new record
IsBoundary(section) ==
    \/ Contains(section, <<NICHE>>)
    \/ StartsWith(Strip(section), <<"1", ".">>)
    \/ StartsWith(Strip(section), <<"2", ".">>)

\* section.split(label)[1]: an IndexError when the label is not in the section
HasSecond(section, label) == Len(Split(section, <<label>>)) >= 2
AfterLabel(section, label) ==
    IF HasSecond(section, label) THEN Split(section, <<label>>)[2] ELSE <<>>

\* section.split(label)[1].split('\n')[0].strip()
LineField(section, label) == Strip(Split(AfterLabel(section, label), <<NL>>)[1])

\* section.split(label)[1].split(next)[0].strip()
\* (variant without the cut at next, for the sensitivity check of C10)
BlockFieldWhole(section, label, next) == Strip(AfterLabel(section, label))
BlockField(section, label, next) ==
    Strip(Split(AfterLabel(section, label), <<next>>)[1])

\* section.split(label)[1].strip()
TailField(section, label) == Strip(AfterLabel(section, label))

\* try: int(score_text.split('/')[0].strip())  except: 5
\* (variant without the except, for the sensitivity check of C2)
DemandScoreNoCatch(score_text) ==
    LET p == ParseInt(Strip(Split(score_text, <<"/">>)[1]))
    IN  [value |-> IF p.ok THEN p.value ELSE DefaultDemandScore, raised |-> ~p.ok]
DemandScore(score_text) ==
    LET p == ParseInt(Strip(Split(score_text, <<"/">>)[1]))
    IN  IF p.ok THEN [value |-> p.value, raised |-> FALSE]
        ELSE [value |-> DefaultDemandScore, raised |-> FALSE]

\* the label whose branch of the if/elif chain runs for this section
\* ("" when the section holds no label)
ChainOrder == <<NICHE, AUDIENCE, THEME, PRODUCTS, DEMAND, COMPETITION,
                EXAMPLES, WHY, ADANGLE, REVENUE>>
BranchTaken(section) ==
    LET present == {i \in 1..Len(ChainOrder) : Contains(section, <<ChainOrder[i]>>)}
    IN  IF present = {} THEN "" ELSE ChainOrder[SetMin(present)]

\* the if/elif chain: at most one field of the section is stored.
\* raised is TRUE when the branch would raise out of extract_opportunities.
ExtractFields(section, opp) ==
    LET b == BranchTaken(section)
        ok == b = "" \/ HasSecond(section, b)
        r(o) == [opp |-> o, raised |-> ~ok]
    IN  CASE b = "" -> [opp |-> opp, raised |-> FALSE]
          [] b = NICHE -> r(SetKey(opp, "niche", LineField(section, NICHE)))
          [] b = AUDIENCE -> r(SetKey(opp, "audience", LineField(section, AUDIENCE)))
          [] b = THEME -> r(SetKey(opp, "design_theme", LineField(section, THEME)))
          [] b = PRODUCTS -> r(SetKey(opp, "products", LineField(section, PRODUCTS)))
          [] b = DEMAND ->
               LET d == DemandScore(LineField(section, DEMAND))
               IN  [opp |-> SetKey(opp, "demand_score", d.value),
                    raised |-> ~ok \/ d.raised]
          [] b = COMPETITION -> r(SetKey(opp, "competition", LineField(section, COMPETITION)))
          [] b = EXAMPLES -> r(SetKey(opp, "design_examples", BlockField(section, EXAMPLES, WHY)))
          [] b = WHY -> r(SetKey(opp, "why_works", BlockField(section, WHY, ADANGLE)))
          [] b = ADANGLE -> r(SetKey(opp, "ad_angle", BlockField(section, ADANGLE, REVENUE)))
          [] b = REVENUE -> r(SetKey(opp, "est_revenue", TailField(section, REVENUE)))


\* one pass of the loop body for one section:
\* the boundary test with its push and reset, then the if/elif chain
ProcessSection(section, opp, opps) ==
    LET push == IsBoundary(section) /\ DOMAIN opp # {}
        base == IF push THEN EmptyOpp ELSE opp
        f    == ExtractFields(section, base)
    IN  [opp    |-> f.opp,
         opps   |-> IF push THEN Append(opps, opp) ELSE opps,
         raised |-> f.raised]

\* ------------------------------------------------------------------ inputs
Line(label, value) == <<label, " ">> \o value

BlockLines ==
    << Line(NICHE, <<"a">>), Line(AUDIENCE, <<"b">>), Line(THEME, <<"a", " ", "b">>),
       Line(PRODUCTS, <<"b">>), Line(DEMAND, <<"7", "/", "1", "0">>),
       Line(COMPETITION, <<"a">>), Line(EXAMPLES, <<"b">>), Line(WHY, <<"a">>),
       Line(ADANGLE, <<"b">>), Line(REVENUE, <<"a">>) >>

RECURSIVE JoinWith(_, _)
JoinWith(parts, sep) ==
    IF parts = <<>> THEN <<>>
    ELSE IF Len(parts) = 1 THEN parts[1]
    ELSE parts[1] \o sep \o JoinWith(Tail(parts), sep)

\* the ten labels in order: on consecutive lines, or one per paragraph
WellFormedSingle == JoinWith(BlockLines, <<NL>>)
WellFormedSpaced == JoinWith(BlockLines, <<NL, NL>>)

DemandValues ==
    { <<"7", "/", "1", "0">>, <<"1", "0">>, <<"a", "/", "a">>, <<"1", "5">>,
      <<"0">>, <<"-", "1">>, <<>>, <<" ", "7", " ", "/", "1", "0">>,
      <<"7", ".", "5">>, <<"8", NL, "a">>, <<"/", "7">> }
DemandTexts == { <<DEMAND>> \o v : v \in DemandValues } \cup
               { <<DEMAND, " ">> \o v : v \in DemandValues }

LabelTexts == { BlockLines[i] : i \in 1..Len(BlockLines) }

ChunkPool ==
    { Line(NICHE, <<"a">>), <<"2", ".", " ">> \o Line(AUDIENCE, <<"b">>),
      Line(EXAMPLES, <<"a">>), Line(WHY, <<"b">>), Line(ADANGLE, <<"a">>),
      <<"a">>, <<" ", "1", ".", " ", "a">> }
Seps == { <<NL>>, <<NL, NL>> }

RECURSIVE JoinChunks(_, _)
JoinChunks(cs, ss) ==
    IF Len(cs) = 0 THEN <<>>
    ELSE IF Len(cs) = 1 THEN cs[1]
    ELSE cs[1] \o ss[1] \o JoinChunks(Tail(cs), Tail(ss))

ChunkTexts ==
    UNION { { JoinChunks(cs, ss) : cs \in [1..n -> ChunkPool],
                                   ss \in [1..(n - 1) -> Seps] } : n \in 0..MaxChunks }

\* the four free-text labels on consecutive lines of one paragraph, in any order
TailLines == { Line(EXAMPLES, <<"a">>), Line(WHY, <<"b">>), Line(ADANGLE, <<"a">>),
               Line(REVENUE, <<"b">>) }
TailTexts ==
    { JoinWith(ls, <<NL>>) :
        ls \in { f \in UNION { [1..n -> TailLines] : n \in 1..3 } :
                  \A i, j \in DOMAIN f : i # j => f[i] # f[j] } }

\* an unparseable score, then a paragraph that starts the next record
MalformedThenGood ==
    JoinWith(<< Line(DEMAND, <<"a", "/", "a">>), Line(NICHE, <<"a">>) >>, <<NL, NL>>)

ExtractTexts ==
    {WellFormedSingle, WellFormedSpaced, MalformedThenGood} \cup DemandTexts
        \cup LabelTexts \cup TailTexts \cup ChunkTexts

\* replies of the generative-text provider used in a whole run
FourRecords ==
    JoinWith(<< Line(NICHE, <<"a">>), Line(DEMAND, <<"7", "/", "1", "0">>),
                Line(NICHE, <<"b">>), Line(DEMAND, <<"1", "5">>),
                Line(NICHE, <<"a", "b">>), Line(NICHE, <<"b", "a">>) >>, <<NL, NL>>)
FailureSentinel == <<"Analysis failed">>
RunTexts == { WellFormedSingle, FourRecords, <<"a", NL, NL, "b">> }

\* arguments of a direct call of save_to_sheets
SinkRecords ==
    { [niche |-> <<"a">>],
      [niche |-> <<"b">>, demand_score |-> 15],
      [audience |-> <<"a">>, competition |-> <<"b">>, demand_score |-> 7] }
SinkOpps ==
    UNION { [1..n -> SinkRecords] : n \in 0..2 }
SinkRaw == { <<>>, FourRecords }

\* responses of the search provider to one query
DictItem(n, keys) == [isdict |-> TRUE, keys |-> keys, n |-> n]
NonDictItem == [isdict |-> FALSE, keys |-> {}, n |-> 0]
AllKeys == {"title", "snippet", "link"}

Response(kind, isdict, null, organic) ==
    [kind |-> kind, data_isdict |-> isdict, organic_null |-> null, organic |-> organic]

Responses ==
    { Response("network_error", FALSE, FALSE, <<>>),
      Response("invalid_json", FALSE, FALSE, <<>>),
      Response("json", FALSE, FALSE, <<>>),
      Response("json", TRUE, TRUE, <<>>),
      Response("json", TRUE, FALSE, <<>>),
      Response("json", TRUE, FALSE,
               <<DictItem(1, AllKeys), DictItem(2, {"title", "link"}),
                 DictItem(3, AllKeys), DictItem(4, AllKeys)>>),
      Response("json", TRUE, FALSE, <<DictItem(1, AllKeys), NonDictItem>>) }


\* ------------------------------------------------------------------- state
VARIABLES
    entry,          \* the method invoked on the constructed object
    pc,             \* position in the code
    serper_key,     \* self.serper_key ("" when not configured)
    sheet_id,       \* self.sheet_id ("" when not configured)
    trends,         \* find_trending_topics: trends
    qi,             \* number of queries the for loop has taken
    requests,       \* search requests issued, by query index
    last_resp,      \* the response to the last query
    last_failed,    \* the last query ended in the except branch
    last_added,     \* snippets the last query appended to trends
    prompts,        \* generative-text calls: the trends put in each prompt
    analysis,       \* analysis / analysis_text / raw_analysis
    sections,       \* extract_opportunities: sections
    si,             \* sections the for loop has taken
    current_opp,    \* extract_opportunities: current_opp
    opportunities,  \* opportunities (extractor result, sink argument)
    raised,         \* an exception left the invoked method
    rows,           \* save_to_sheets: rows
    appends,        \* spreadsheet append calls attempted
    console,        \* lines printed
    rendered,       \* the entries printed under TOP 3 OPPORTUNITIES
    calls           \* methods invoked, in order

collectorVars == <<trends, qi, requests, last_resp, last_failed, last_added>>
extractVars == <<sections, si, current_opp>>
sinkVars == <<rows, appends>>
envVars == <<entry, serper_key, sheet_id>>

vars == <<entry, pc, serper_key, sheet_id, trends, qi, requests, last_resp,
          last_failed, last_added, prompts, analysis, sections, si, current_opp,
          opportunities, raised, rows, appends, console, rendered, calls>>

Min2(a, b) == IF a <= b THEN a ELSE b
Take(s, n) == SubSeq(s, 1, Min2(n, Len(s)))

NoResponse == Response("none", FALSE, FALSE, <<>>)

\* the state after __init__, before the invoked method runs
InitCommon ==
    /\ trends = <<>> /\ qi = 0 /\ requests = <<>>
    /\ last_resp = NoResponse /\ last_failed = FALSE /\ last_added = 0
    /\ prompts = <<>>
    /\ sections = <<>> /\ si = 0 /\ current_opp = EmptyOpp
    /\ raised = FALSE
    /\ rows = <<>> /\ appends = <<>>
    /\ console = <<>> /\ rendered = <<>> /\ calls = <<>>

InitRun ==
    /\ entry = "run_daily_research" /\ pc = "run_start"
    /\ serper_key \in {"", "key"}
    /\ sheet_id \in {"", "sheet"}
    /\ analysis = <<>> /\ opportunities = <<>>

InitExtract ==
    /\ entry = "extract_opportunities" /\ pc = "extract_entry"
    /\ serper_key = "" /\ sheet_id = ""
    /\ analysis \in ExtractTexts /\ opportunities = <<>>

InitSave ==
    /\ entry = "save_to_sheets" /\ pc = "save_entry"
    /\ serper_key = ""
    /\ sheet_id \in {"", "sheet"}
    /\ analysis \in SinkRaw /\ opportunities \in SinkOpps

Init == InitCommon /\ (InitRun \/ InitExtract \/ InitSave)

\* ----------------------------------------------------- find_trending_topics
NoneValue == <<"None">>
ItemGet(item, key, default) == IF key \in item.keys THEN <<key, item.n>> ELSE default

Snippet(item) ==
    [title   |-> ItemGet(item, "title", NoneValue),
     snippet |-> ItemGet(item, "snippet", <<>>),
     url     |-> ItemGet(item, "link", NoneValue)]

\* the body of the try for one response: the snippets appended before the
\* statement that raises, if one does
QueryResult(resp) ==
    IF resp.kind # "json" \/ ~resp.data_isdict \/ resp.organic_null
    THEN [added |-> <<>>, failed |-> TRUE]
    ELSE LET items == Take(resp.organic, MaxOrganic)
             bad   == {i \in 1..Len(items) : ~items[i].isdict}
             upto  == IF bad = {} THEN Len(items) ELSE SetMin(bad) - 1
         IN  [added  |-> [i \in 1..upto |-> Snippet(items[i])],
              failed |-> bad # {}]

FttEntry ==
    /\ pc = "ftt_entry"
    /\ trends' = <<>>
    /\ IF serper_key = ""
       THEN /\ console' = Append(console, <<"No Serper API key">>)
            /\ pc' = "run_check_trends"
       ELSE /\ console' = console
            /\ pc' = "ftt_loop"
    /\ UNCHANGED <<envVars, qi, requests, last_resp, last_failed, last_added,
                   prompts, analysis, extractVars, opportunities, raised,
                   sinkVars, rendered, calls>>

FttQuery ==
    /\ pc = "ftt_loop"
    /\ qi < NumQueries
    /\ \E resp \in Responses :
         LET res == QueryResult(resp)
         IN  /\ qi' = qi + 1
             /\ requests' = Append(requests, qi + 1)
             /\ last_resp' = resp
             /\ trends' = trends \o res.added
             /\ last_failed' = res.failed
             /\ last_added' = Len(res.added)
             /\ console' = IF res.failed
                           THEN Append(console, <<"Error finding trends">>)
                           ELSE console
    /\ UNCHANGED <<envVars, pc, prompts, analysis, extractVars, opportunities,
                   raised, sinkVars, rendered, calls>>

FttReturn ==
    /\ pc = "ftt_loop"
    /\ qi = NumQueries
    /\ pc' = "run_check_trends"
    /\ UNCHANGED <<envVars, collectorVars, prompts, analysis, extractVars,
                   opportunities, raised, sinkVars, console, rendered, calls>>

\* ------------------------------------------------------ extract_opportunities
ExtractEntry ==
    /\ pc = "extract_entry"
    /\ calls' = Append(calls, "extract_opportunities")
    /\ opportunities' = <<>>
    /\ sections' = Split(analysis, <<NL, NL>>)
    /\ si' = 0
    /\ current_opp' = EmptyOpp
    /\ pc' = "extract_loop"
    /\ UNCHANGED <<envVars, collectorVars, prompts, analysis, raised, sinkVars,
                   console, rendered>>

ExtractSection ==
    /\ pc = "extract_loop"
    /\ si < Len(sections)
    /\ LET res == ProcessSection(sections[si + 1], current_opp, opportunities)
       IN  /\ si' = si + 1
           /\ current_opp' = res.opp
           /\ opportunities' = res.opps
           /\ raised' = res.raised
           /\ pc' = IF res.raised THEN "raised" ELSE "extract_loop"
    /\ UNCHANGED <<envVars, collectorVars, prompts, analysis, sections, sinkVars,
                   console, rendered, calls>>

\* (variant that drops the accumulator left after the loop, for the
\* sensitivity check of C8)
ExtractReturnNoFinalPush ==
    /\ pc = "extract_loop"
    /\ si = Len(sections)
    /\ opportunities' = opportunities
    /\ pc' = IF entry = "run_daily_research" THEN "run_check_opps" ELSE "returned"
    /\ UNCHANGED <<envVars, collectorVars, prompts, analysis, extractVars, raised,
                   sinkVars, console, rendered, calls>>

ExtractReturn ==
    /\ pc = "extract_loop"
    /\ si = Len(sections)
    /\ opportunities' = IF DOMAIN current_opp # {}
                        THEN Append(opportunities, current_opp)
                        ELSE opportunities
    /\ pc' = IF entry = "run_daily_research" THEN "run_check_opps" ELSE "returned"
    /\ UNCHANGED <<envVars, collectorVars, prompts, analysis, extractVars, raised,
                   sinkVars, console, rendered, calls>>

\* -------------------------------------------------------------- save_to_sheets
Now == <<"now">>

OppGet(opp, key, default) == IF key \in DOMAIN opp THEN opp[key] ELSE default

Row(opp) ==
    << Now,
       OppGet(opp, "niche", <<>>),
       OppGet(opp, "audience", <<>>),
       OppGet(opp, "design_theme", <<>>),
       OppGet(opp, "products", <<>>),
       OppGet(opp, "demand_score", DefaultDemandScore),
       OppGet(opp, "competition", <<"Medium">>),
       OppGet(opp, "design_examples", <<>>),
       OppGet(opp, "why_works", <<>>),
       OppGet(opp, "ad_angle", <<>>),
       OppGet(opp, "est_revenue", <<>>),
       <<"Not started">>,
       <<>> >>

\* `not self.sheet_id or not opportunities`
\* (variant that tests the sheet only, for the sensitivity check of C4)
NothingToSaveSheetOnly(sheet, opps) == sheet = ""
NothingToSave(sheet, opps) == sheet = "" \/ opps = <<>>

SaveReturnPc == IF entry = "run_daily_research" THEN "run_render" ELSE "returned"

SaveEntry ==
    /\ pc = "save_entry"
    /\ calls' = Append(calls, "save_to_sheets")
    /\ IF NothingToSave(sheet_id, opportunities)
       THEN /\ console' = Append(console, <<"No opportunities to save">>)
            /\ rows' = rows
            /\ pc' = SaveReturnPc
       ELSE /\ console' = console
            /\ rows' = [i \in 1..Len(opportunities) |-> Row(opportunities[i])]
            /\ pc' = "append_opps"
    /\ UNCHANGED <<envVars, collectorVars, prompts, analysis, extractVars,
                   opportunities, raised, appends, rendered>>

AppendOpps ==
    /\ pc = "append_opps"
    /\ \E ok \in BOOLEAN :
         /\ appends' = Append(appends, [range |-> "Opportunities!A:M",
                                        values |-> rows, ok |-> ok])
         /\ IF ok
            THEN /\ console' = Append(console, <<"Saved opportunities to Google Sheets">>)
                 /\ pc' = "append_raw"
            ELSE /\ console' = Append(console, <<"Error saving to Sheets">>)
                 /\ pc' = SaveReturnPc
    /\ UNCHANGED <<envVars, collectorVars, prompts, analysis, extractVars,
                   opportunities, raised, rows, rendered, calls>>

AppendRaw ==
    /\ pc = "append_raw"
    /\ \E ok \in BOOLEAN :
         /\ appends' = Append(appends, [range |-> "Analysis!A:B",
                                        values |-> <<<<Now, analysis>>>>, ok |-> ok])
         /\ console' = IF ok THEN console
                       ELSE Append(console, <<"Error saving to Sheets">>)
         /\ pc' = SaveReturnPc
    /\ UNCHANGED <<envVars, collectorVars, prompts, analysis, extractVars,
                   opportunities, raised, rows, rendered, calls>>

\* ---------------------------------------------------------- run_daily_research
RunStart ==
    /\ pc = "run_start"
    /\ console' = console \o << <<"USA PRINTIFY/POD TREND FINDER">>,
                                 <<"Finding trending topics in USA...">> >>
    /\ calls' = Append(calls, "find_trending_topics")
    /\ pc' = "ftt_entry"
    /\ UNCHANGED <<envVars, collectorVars, prompts, analysis, extractVars,
                   opportunities, raised, sinkVars, rendered>>

\* analyze_niche_opportunities: the prompt holds the first fifteen trends; the
\* provider's reply is returned, or the sentinel when the call fails
Analyze ==
    /\ prompts' = Append(prompts, Take(trends, MaxPromptTrends))
    /\ calls' = Append(calls, "analyze_niche_opportunities")
    /\ \E reply \in RunTexts \cup {FailureSentinel} :
         /\ analysis' = reply
         /\ console' = IF reply = FailureSentinel
                       THEN console \o << <<"Found trending topics">>,
                                          <<"Analyzing opportunities with Claude AI...">>,
                                          <<"Error with Claude">>,
                                          <<"Extracting opportunities...">> >>
                       ELSE console \o << <<"Found trending topics">>,
                                          <<"Analyzing opportunities with Claude AI...">>,
                                          <<"Extracting opportunities...">> >>
    /\ pc' = "extract_entry"

\* (variant without the early return, for the sensitivity check of C3)
RunCheckTrendsNoStop ==
    /\ pc = "run_check_trends"
    /\ Analyze
    /\ UNCHANGED <<envVars, collectorVars, extractVars, opportunities, raised,
                   sinkVars, rendered>>

RunCheckTrends ==
    /\ pc = "run_check_trends"
    /\ IF trends = <<>>
       THEN /\ console' = console \o << <<"Found trending topics">>,
                                          <<"No trends found. Check Serper API key.">> >>
            /\ pc' = "done"
            /\ UNCHANGED <<prompts, analysis, calls>>
       ELSE Analyze
    /\ UNCHANGED <<envVars, collectorVars, extractVars, opportunities, raised,
                   sinkVars, rendered>>

Excerpt(text) == Take(text, ExcerptLen) \o <<"...">>

RunCheckOpps ==
    /\ pc = "run_check_opps"
    /\ IF opportunities # <<>>
       THEN /\ console' = console \o << <<"Extracted niche opportunities">>,
                                        <<"Saving to Google Sheets...">> >>
            /\ pc' = "save_entry"
       ELSE /\ console' = console \o << <<"Extracted niche opportunities">>,
                                        <<"Could not extract opportunities from analysis">>,
                                        <<"Raw analysis:">>, Excerpt(analysis) >>
            /\ pc' = "run_complete"
    /\ UNCHANGED <<envVars, collectorVars, prompts, analysis, extractVars,
                   opportunities, raised, sinkVars, rendered, calls>>

Display(opp) ==
    [niche       |-> OppGet(opp, "niche", <<"Unknown">>),
     audience    |-> OppGet(opp, "audience", <<"N/A">>),
     demand      |-> OppGet(opp, "demand_score", 0),
     competition |-> OppGet(opp, "competition", <<"Unknown">>),
     products    |-> OppGet(opp, "products", <<"N/A">>),
     est_revenue |-> OppGet(opp, "est_revenue", <<"N/A">>)]

\* opportunities[:3]
\* (variant that skips the first record, for the sensitivity check of C6)
TopThreeFromSecond(opps) == SubSeq(opps, 2, Min2(TopCount + 1, Len(opps)))
TopThree(opps) == Take(opps, TopCount)

RunRender ==
    /\ pc = "run_render"
    /\ console' = Append(console, <<"TOP 3 OPPORTUNITIES">>)
    /\ rendered' = [i \in 1..Len(TopThree(opportunities)) |->
                      Display(TopThree(opportunities)[i])]
    /\ pc' = "run_complete"
    /\ UNCHANGED <<envVars, collectorVars, prompts, analysis, extractVars,
                   opportunities, raised, sinkVars, calls>>

RunComplete ==
    /\ pc = "run_complete"
    /\ console' = console \o << <<"Research complete!">>, <<"Next steps:">> >>
    /\ pc' = "done"
    /\ UNCHANGED <<envVars, collectorVars, prompts, analysis, extractVars,
                   opportunities, raised, sinkVars, rendered, calls>>

Next ==
    \/ RunStart
    \/ FttEntry
    \/ FttQuery
    \/ FttReturn
    \/ RunCheckTrends
    \/ ExtractEntry
    \/ ExtractSection
    \/ ExtractReturn
    \/ RunCheckOpps
    \/ SaveEntry
    \/ AppendOpps
    \/ AppendRaw
    \/ RunRender
    \/ RunComplete

Spec == Init /\ [][Next]_vars


\* ================================================================== claims
AllRecords == { opportunities[i] : i \in 1..Len(opportunities) } \cup {current_opp}
ExtractReturned == entry = "extract_opportunities" /\ pc = "returned"
SaveCalled == \E i \in 1..Len(calls) : calls[i] = "save_to_sheets"
SaveReturned == SaveCalled /\ pc \notin {"save_entry", "append_opps", "append_raw"}
AppendedTo(range) == \E i \in 1..Len(appends) : appends[i].range = range
Logged(line) == \E i \in 1..Len(console) : console[i] = line

\* ---- C1
FieldNames == {"niche", "audience", "design_theme", "products", "demand_score",
               "competition", "design_examples", "why_works", "ad_angle",
               "est_revenue"}

WellFormedRecord(r) ==
    /\ DOMAIN r = FieldNames
    /\ r["niche"] = <<"a">>
    /\ r["audience"] = <<"b">>
    /\ r["design_theme"] = <<"a", " ", "b">>
    /\ r["products"] = <<"b">>
    /\ r["demand_score"] = 7
    /\ r["competition"] = <<"a">>
    /\ r["design_examples"] = <<"b">>
    /\ r["why_works"] = <<"a">>
    /\ r["ad_angle"] = <<"b">>
    /\ r["est_revenue"] = <<"a">>

\* C1: a text holding exactly one well-formed block with the ten labels in
\* order, on consecutive lines of one section or one per section, yields
\* exactly one record, with all ten fields holding the text after their label
\* and demand_score the parsed leading integer.
C1_WellFormedBlockYieldsFullRecord ==
    (ExtractReturned /\ analysis \in {WellFormedSingle, WellFormedSpaced})
        => /\ Len(opportunities) = 1
           /\ WellFormedRecord(opportunities[1])

\* ---- C2
\* C2: extract_opportunities never raises and takes every section: no state
\* has an exception leaving the extractor, an unparseable demand score is
\* stored as 5, and the method returns only after the loop has taken all the
\* sections of the text.
C2_ExtractNeverRaises ==
    /\ ~raised
    /\ pc # "raised"
    /\ si <= Len(sections)
    /\ ExtractReturned =>
         /\ sections = Split(analysis, <<NL, NL>>)
         /\ si = Len(sections)
    /\ (ExtractReturned /\ analysis = MalformedThenGood) =>
         /\ Len(opportunities) = 2
         /\ opportunities[1]["demand_score"] = DefaultDemandScore

\* an unparseable score was defaulted and the section after it was still taken
C2_Witness ==
    /\ ExtractReturned
    /\ analysis = MalformedThenGood
    /\ si = 2
    /\ Len(opportunities) = 2
    /\ "niche" \in DOMAIN opportunities[2]

\* ---- C3
\* C3: in a run whose Collector returned no trends, the run ends at once: the
\* Analyzer, the Extractor and the Sink are never invoked, so there is no
\* generative-text call and no spreadsheet append.
C3_EmptyTrendsStopsRun ==
    (/\ entry = "run_daily_research"
     /\ pc \notin {"run_start", "ftt_entry", "ftt_loop", "run_check_trends"}
     /\ trends = <<>>)
        => /\ pc = "done"
           /\ calls = <<"find_trending_topics">>
           /\ prompts = <<>>
           /\ appends = <<>>
           /\ sections = <<>>
           /\ Logged(<<"No trends found. Check Serper API key.">>)

\* every query was issued and none gave a snippet; the run has ended
C3_Witness ==
    /\ entry = "run_daily_research"
    /\ pc = "done"
    /\ serper_key # ""
    /\ qi = NumQueries
    /\ trends = <<>>

\* ---- C4
\* C4: no append is performed for an empty record sequence: save_to_sheets
\* with an empty sequence returns with no append call and no rows, and a run
\* that extracted no record never calls save_to_sheets and prints the excerpt
\* of the raw analysis.
C4_NoAppendForEmptyRecords ==
    /\ (entry # "extract_opportunities" /\ opportunities = <<>>) =>
         /\ appends = <<>>
         /\ rows = <<>>
         /\ pc \notin {"append_opps", "append_raw"}
    /\ (/\ entry = "run_daily_research"
        /\ pc \in {"run_complete", "done"}
        /\ prompts # <<>>
        /\ opportunities = <<>>) =>
         /\ ~SaveCalled
         /\ Logged(Excerpt(analysis))

\* save_to_sheets was called with an empty sequence and a configured sheet
C4_Witness ==
    /\ entry = "save_to_sheets"
    /\ pc = "returned"
    /\ sheet_id # ""
    /\ opportunities = <<>>
    /\ SaveCalled

\* ---- C5
\* C5: whenever save_to_sheets has run with a configured spreadsheet and a
\* non-empty record sequence, the append of the raw-analysis row to the
\* Analysis range was attempted, whatever the outcome of the append of the
\* opportunity rows.
C5_RawAppendIndependent ==
    (SaveReturned /\ sheet_id # "" /\ opportunities # <<>>)
        => AppendedTo("Analysis!A:B")

\* ---- C6
\* C6: in a run with a non-empty record sequence, whatever the outcome of the
\* append calls, no exception leaves save_to_sheets, the run goes on to
\* render the first three records in extraction order, and it ends with its
\* completion message.
C6_PersistenceFailureDoesNotStopRun ==
    /\ (entry = "run_daily_research" /\ SaveCalled) => (~raised /\ pc # "raised")
    /\ (entry = "run_daily_research" /\ SaveReturned) =>
         pc \in {"run_render", "run_complete", "done"}
    /\ (/\ entry = "run_daily_research"
        /\ pc \in {"run_complete", "done"}
        /\ opportunities # <<>>) =>
         /\ Len(rendered) = Min2(3, Len(opportunities))
         /\ \A i \in 1..Len(rendered) : rendered[i] = Display(opportunities[i])
    /\ (entry = "run_daily_research" /\ pc = "done" /\ opportunities # <<>>) =>
         Logged(<<"Research complete!">>)

\* more than three records, an append failed, and the run completed
C6_Witness ==
    /\ entry = "run_daily_research"
    /\ pc = "done"
    /\ Len(opportunities) > 3
    /\ \E i \in 1..Len(appends) : ~appends[i].ok
    /\ Len(rendered) = 3

\* ---- C7
\* C7: the demand score of every record extract_opportunities builds, and of
\* every row save_to_sheets builds from such records, is an integer in 1..10.
C7_DemandScoreInRange ==
    entry # "save_to_sheets" =>
        /\ \A r \in AllRecords :
             "demand_score" \in DOMAIN r => r["demand_score"] \in 1..10
        /\ \A i \in 1..Len(rows) : rows[i][6] \in 1..10

\* ---- C8
\* a record boundary, in the words of the claim
ClaimBoundary(section) ==
    \/ \E i \in 1..Len(section) : section[i] = NICHE
    \/ LET t == Strip(section)
       IN  Len(t) >= 2 /\ t[1] \in {"1", "2"} /\ t[2] = "."

HasAnyLabel(section) == \E i \in 1..Len(section) : section[i] \in Labels

\* walk over the sections: count the boundaries met with content accumulated,
\* and tell whether content is left accumulated after the last section
RECURSIVE BoundaryWalk(_, _, _, _)
BoundaryWalk(secs, i, held, count) ==
    IF i > Len(secs) THEN [count |-> count, held |-> held]
    ELSE LET hit == ClaimBoundary(secs[i]) /\ held
         IN  BoundaryWalk(secs, i + 1,
                          (held /\ ~hit) \/ HasAnyLabel(secs[i]),
                          IF hit THEN count + 1 ELSE count)

Boundaries(text) == BoundaryWalk(Split(text, <<NL, NL>>), 1, FALSE, 0)

\* C8 as stated: the number of records returned equals the number of record
\* boundaries met while the accumulator held content.
C8_LengthEqualsBoundaryCount ==
    ExtractReturned => Len(opportunities) = Boundaries(analysis).count

\* C8 amended: the number of records returned equals the number of record
\* boundaries met while the accumulator held content, plus one when content
\* is left in the accumulator after the last section.
C8_LengthEqualsBoundariesPlusFinal ==
    ExtractReturned =>
        Len(opportunities) = Boundaries(analysis).count
                             + (IF Boundaries(analysis).held THEN 1 ELSE 0)

\* boundaries pushed records and the final accumulator was pushed too
C8_Witness ==
    /\ ExtractReturned
    /\ Boundaries(analysis).count = 2
    /\ Boundaries(analysis).held
    /\ Len(opportunities) = 3

\* ---- C9
\* C9: with a search key configured the six queries are issued once each in
\* order, the collector does not raise, a failed query adds no snippet to the
\* list, and a successful query adds at most its first three organic results.
C9_FailedQueryAddsNothing ==
    /\ requests = [i \in 1..qi |-> i]
    /\ qi <= NumQueries
    /\ ~raised
    /\ last_failed => last_added = 0
    /\ (qi > 0 /\ ~last_failed) =>
         /\ last_added <= MaxOrganic
         /\ last_added <= Len(last_resp.organic)
         /\ \A k \in 1..last_added :
              trends[Len(trends) - last_added + k] = Snippet(last_resp.organic[k])

\* ---- C10
BlockFields == {"design_examples", "why_works", "ad_angle"}
BlockLabel(f) ==
    CASE f = "design_examples" -> EXAMPLES [] f = "why_works" -> WHY
      [] f = "ad_angle" -> ADANGLE
Successor(f) ==
    CASE f = "design_examples" -> WHY [] f = "why_works" -> ADANGLE
      [] f = "ad_angle" -> REVENUE

HoldsToken(text, tokens) == \E i \in 1..Len(text) : text[i] \in tokens

\* C10 as stated: a stored design-examples, rationale or marketing-angle value
\* never contains the text of a recognized label.
C10_BlockFieldHoldsNoLabel ==
    \A r \in AllRecords : \A f \in BlockFields \cap DOMAIN r :
        ~HoldsToken(r[f], Labels)

\* the text after the first occurrence of label, cut before the first later
\* occurrence of one of the stop tokens, stripped
CutAfter(section, label, stops) ==
    LET at    == SetMin({i \in 1..Len(section) : section[i] = label})
        later == {i \in (at + 1)..Len(section) : section[i] \in stops}
        end   == IF later = {} THEN Len(section) ELSE SetMin(later) - 1
    IN  Strip(SubSeq(section, at + 1, end))

\* the field stored from a section: its label is in the section and none of
\* the labels tested before it is
StoredFrom(section, f) ==
    /\ \E i \in 1..Len(section) : section[i] = BlockLabel(f)
    /\ \A i \in 1..Len(section) : \A j \in 1..Len(ChainOrder) :
         (section[i] = ChainOrder[j]) =>
             \A k \in 1..Len(ChainOrder) : ChainOrder[k] = BlockLabel(f) => k <= j

\* C10 amended: a stored design-examples, rationale or marketing-angle value
\* is the text after the first occurrence of the field's label up to and
\* excluding the next occurrence of the field's own successor label (or of
\* the field's label again), or up to the end of the section when neither
\* follows; it never contains the successor label, though it can contain
\* other recognized labels.
C10_BlockFieldStopsAtSuccessor ==
    /\ \A r \in AllRecords : \A f \in BlockFields \cap DOMAIN r :
         ~HoldsToken(r[f], {BlockLabel(f), Successor(f)})
    /\ (pc = "extract_loop" /\ si >= 1) =>
         \A f \in BlockFields :
            StoredFrom(sections[si], f) =>
               /\ f \in DOMAIN current_opp
               /\ current_opp[f] =
                    CutAfter(sections[si], BlockLabel(f), {BlockLabel(f), Successor(f)})

\* design examples were cut at WHY IT WORKS and kept a FACEBOOK AD ANGLE label
C10_Witness ==
    /\ pc = "extract_loop" /\ si >= 1
    /\ StoredFrom(sections[si], "design_examples")
    /\ HoldsToken(sections[si], {WHY})
    /\ "design_examples" \in DOMAIN current_opp
    /\ HoldsToken(current_opp["design_examples"], {ADANGLE})

====
